---------------------------- MODULE Spec2Model ----------------------------
(***************************************************************************)
(* Model of the fungible token-staking contract (src/src/lib.rs).          *)
(*                                                                         *)
(* The contract keeps a ledger (a map owner -> StakeState and the          *)
(* aggregate total_staked) and has three receive functions, stake,         *)
(* unstake and claim, each of which runs to completion as one transaction  *)
(* of the host chain.  A receive function that returns Err, or that        *)
(* panics, is rejected by the host and leaves the contract state as it was *)
(* before the call; one that returns Ok commits its state.                 *)
(*                                                                         *)
(* All amounts and timestamps of the contract are u64.  TLC's integers are *)
(* 32 bits wide, so a u64 is modelled exactly as the sequence of its       *)
(* hexadecimal digits, least significant first, without leading zeros      *)
(* (0 is <<>>, 1000 = 0x3E8 is <<8, 14, 3>>).  Only the digit arithmetic   *)
(* uses TLC's integers.                                                    *)
(***************************************************************************)
EXTENDS Integers, Sequences, FiniteSets, TLC

(***************************************************************************)
(* Natural numbers of any size as hexadecimal digit sequences.             *)
(***************************************************************************)
Max(x, y) == IF x >= y THEN x ELSE y

Min(x, y) == IF x <= y THEN x ELSE y

\* The i-th digit of a (1 is the least significant), 0 beyond its length.
DigitAt(a, i) == IF i <= Len(a) THEN a[i] ELSE 0

RECURSIVE Norm(_)
\* a without its leading (most significant) zero digits.
Norm(a) ==
    IF a = <<>> THEN <<>>
    ELSE IF a[Len(a)] = 0 THEN Norm(SubSeq(a, 1, Len(a) - 1))
    ELSE a

RECURSIVE NatOf(_)
\* The digit sequence of a TLC integer n >= 0.
NatOf(n) == IF n = 0 THEN <<>> ELSE <<n % 16>> \o NatOf(n \div 16)

RECURSIVE AddFrom(_, _, _, _)
AddFrom(a, b, i, carry) ==
    IF i > Len(a) /\ i > Len(b)
    THEN (IF carry = 0 THEN <<>> ELSE <<carry>>)
    ELSE LET s == DigitAt(a, i) + DigitAt(b, i) + carry
         IN  <<s % 16>> \o AddFrom(a, b, i + 1, s \div 16)

\* a + b, exact.
NatAdd(a, b) == AddFrom(a, b, 1, 0)

RECURSIVE LessFrom(_, _, _)
LessFrom(a, b, i) ==
    IF i = 0 THEN FALSE
    ELSE IF a[i] # b[i] THEN a[i] < b[i]
    ELSE LessFrom(a, b, i - 1)

\* a < b.
NatLess(a, b) ==
    IF Len(a) # Len(b) THEN Len(a) < Len(b) ELSE LessFrom(a, b, Len(a))

\* a <= b.
NatLeq(a, b) == ~NatLess(b, a)

RECURSIVE SubFrom(_, _, _, _)
SubFrom(a, b, i, borrow) ==
    IF i > Len(a) THEN <<>>
    ELSE LET s == DigitAt(a, i) - DigitAt(b, i) - borrow
         IN  <<(s + 16) % 16>> \o SubFrom(a, b, i + 1, IF s < 0 THEN 1 ELSE 0)

\* a - b, exact, for a >= b.
NatSub(a, b) == Norm(SubFrom(a, b, 1, 0))

RECURSIVE ColumnSum(_, _, _, _)
\* The sum of the digit products a[i] * b[j] with i + j - 1 = k, from digit i of a.
ColumnSum(a, b, k, i) ==
    IF i > Len(a) \/ i > k THEN 0
    ELSE (IF k + 1 - i <= Len(b) THEN a[i] * b[k + 1 - i] ELSE 0)
         + ColumnSum(a, b, k, i + 1)

RECURSIVE MulFrom(_, _, _, _)
MulFrom(a, b, k, carry) ==
    IF k > Len(a) + Len(b) THEN <<>>
    ELSE LET s == ColumnSum(a, b, k, 1) + carry
         IN  <<s % 16>> \o MulFrom(a, b, k + 1, s \div 16)

\* a * b, exact.
NatMul(a, b) == Norm(MulFrom(a, b, 1, 0))

RECURSIVE DivFrom(_, _, _, _)
DivFrom(a, d, i, rem) ==
    IF i = 0 THEN <<>>
    ELSE LET cur == rem * 16 + a[i]
         IN  DivFrom(a, d, i - 1, cur % d) \o <<cur \div d>>

\* floor(a / d) for a TLC integer 0 < d < 2^26.
NatDiv(a, d) == Norm(DivFrom(a, d, Len(a), 0))

RECURSIVE Zeros(_)
Zeros(n) == IF n = 0 THEN <<>> ELSE <<0>> \o Zeros(n - 1)

RECURSIVE Fs(_)
Fs(n) == IF n = 0 THEN <<>> ELSE <<15>> \o Fs(n - 1)

(***************************************************************************)
(* u64 arithmetic as the compiled contract performs it.                    *)
(***************************************************************************)
\* The number of hexadecimal digits of a u64.
U64Digits == 16

\* 2^64.
TwoTo64 == Zeros(U64Digits) \o <<1>>

\* u64::MAX.
U64Max == Fs(U64Digits)

\* 2^63.
TwoTo63 == Zeros(U64Digits - 1) \o <<8>>

IsU64(a) == Len(a) <= U64Digits

\* a mod 2^64.
Wrap64(a) == Norm(SubSeq(a, 1, Min(Len(a), U64Digits)))

\* SECOND_PER_YEAR = 365 * 24 * 60 * 60.
SECOND_PER_YEAR == 31536000

\* Rust's a + b on u64: with overflow checks compiled in, an overflow panics;
\* without them (the release profile's default) the sum wraps modulo 2^64.
u64_add(a, b, checks) ==
    LET s == NatAdd(a, b)
    IN  [panic |-> checks /\ ~IsU64(s), val |-> Wrap64(s)]

\* Rust's a - b on u64: panics or wraps on underflow, as above.
u64_sub(a, b, checks) ==
    IF NatLeq(b, a)
    THEN [panic |-> FALSE, val |-> NatSub(a, b)]
    ELSE [panic |-> checks, val |-> NatSub(NatAdd(a, TwoTo64), b)]

\* Rust's a * b on u64: panics or wraps on overflow, as above.
u64_mul(a, b, checks) ==
    LET p == NatMul(a, b)
    IN  [panic |-> checks /\ ~IsU64(p), val |-> Wrap64(p)]

\* Rust's a / d on u64 for a constant d > 0: cannot overflow.
u64_div(a, d) == NatDiv(a, d)

(***************************************************************************)
(* The world of the contract: accounts, contracts, requests, answers.      *)
(***************************************************************************)
\* The accounts that send requests.
Accounts == {"alice", "bob"}

\* ctx.owner(): the account that owns the staking contract instance.
ContractOwner == "treasury"

\* ctx.self_address(): the staking contract's own address.
SelfAddress == "staking"

\* Token contracts a request may name.
TokenContracts == {"tokenA", "tokenB"}

\* ctx.sender() is an account or a contract (one that an account invoked).
AccountAddr(a) == [kind |-> "account", addr |-> a]

ContractAddr(c) == [kind |-> "contract", addr |-> c]

Senders == {AccountAddr(a) : a \in Accounts} \cup {ContractAddr("proxy")}

\* The receive contexts the host can supply at slot time t: the invoker is the
\* account that signed the transaction, and is the sender when the sender is
\* an account.
Contexts(t) ==
    {c \in [sender : Senders, invoker : Accounts, slot_time : {t}] :
        c.sender.kind = "account" => c.sender.addr = c.invoker}

\* Amounts a stake request may carry.
StakeAmounts == {NatOf(1000), TwoTo63}

\* A parameter that ctx.parameter_cursor().get() cannot decode.
Malformed == [malformed |-> TRUE]

StakeParams ==
    [owner : Accounts, amount : StakeAmounts, token_contract_address : TokenContracts]

UnStakeParams == [owner : Accounts, token_contract_address : TokenContracts]

ClaimParams == [owner : Accounts, token_contract_address : TokenContracts]

\* What host.invoke_contract_read_only can come back with: the call fails
\* (Err), it returns no value (Ok(None)), it returns bytes that do not
\* deserialize, or it returns a value.
CallError == [kind |-> "CallError", val |-> <<>>]

NoReturn == [kind |-> "NoReturn", val |-> <<>>]

Undecodable == [kind |-> "Undecodable", val |-> <<>>]

Value(v) == [kind |-> "Value", val |-> v]

Failures == {CallError, NoReturn, Undecodable}

\* Balances the token contract may report.
Balances == {NatOf(999), TwoTo63}

\* Answers to balanceOf: a failure, an empty list, or one balance.
BalanceOfAnswers == Failures \cup {Value(<<>>)} \cup {Value(<<b>>) : b \in Balances}

\* Answers to operatorOf: a failure, an empty list, or one boolean.
OperatorOfAnswers == Failures \cup {Value(<<>>)} \cup {Value(<<b>>) : b \in BOOLEAN}

\* Answers to transfer: a failure, or success (no payload).
TransferAnswers == Failures \cup {Value(<<>>)}

(***************************************************************************)
(* StakeState and State<S>.                                                *)
(***************************************************************************)
\* StakeState::empty()
StakeState_empty == [amount |-> <<>>, staked_start_at |-> <<>>]

\* self.stake.entry(*owner).or_insert_with(|| StakeState::empty()): the map
\* with a zero record inserted for owner when it has none.
or_insert(stake_map, owner) ==
    IF owner \in DOMAIN stake_map THEN stake_map
    ELSE stake_map @@ (owner :> StakeState_empty)

\* State::empty
State_empty == [stake |-> [o \in {} |-> StakeState_empty], total_staked |-> <<>>]

\* insert_token with the amount added to the record instead of replacing it.
insert_token_adding(st, owner, amount, staked_time, checks) ==
    LET m   == or_insert(st.stake, owner)
        sum == u64_add(st.total_staked, amount, checks)
        acc == u64_add(m[owner].amount, amount, checks)
    IN  [panic        |-> sum.panic \/ acc.panic,
         stake        |-> [m EXCEPT ![owner] =
                              [amount |-> acc.val, staked_start_at |-> staked_time]],
         total_staked |-> sum.val]

\* State::insert_token on state st: the record is overwritten, the total is
\* increased by amount.
insert_token(st, owner, amount, staked_time, checks) ==
    LET m   == or_insert(st.stake, owner)
        sum == u64_add(st.total_staked, amount, checks)
    IN  [panic        |-> sum.panic,
         stake        |-> [m EXCEPT ![owner] =
                              [amount |-> amount, staked_start_at |-> staked_time]],
         total_staked |-> sum.val]

\* remove_token that resets the start time but leaves the amount in the record.
remove_token_keeping_amount(st, owner, checks) ==
    LET m    == or_insert(st.stake, owner)
        diff == u64_sub(st.total_staked, m[owner].amount, checks)
    IN  [panic        |-> diff.panic,
         stake        |-> [m EXCEPT ![owner].staked_start_at = <<>>],
         total_staked |-> diff.val]

\* remove_token that zeroes the record of every owner.
remove_token_clearing_all(st, owner, checks) ==
    LET m    == or_insert(st.stake, owner)
        diff == u64_sub(st.total_staked, m[owner].amount, checks)
    IN  [panic        |-> diff.panic,
         stake        |-> [o \in DOMAIN m |-> StakeState_empty],
         total_staked |-> diff.val]

\* State::remove_token on state st: the total is decreased by the record's
\* amount, the record is zeroed.
remove_token(st, owner, checks) ==
    LET m    == or_insert(st.stake, owner)
        diff == u64_sub(st.total_staked, m[owner].amount, checks)
    IN  [panic        |-> diff.panic,
         stake        |-> [m EXCEPT ![owner] =
                              [amount |-> <<>>, staked_start_at |-> <<>>]],
         total_staked |-> diff.val]

\* get_time with the operands of the subtraction exchanged.
get_time_reversed(st, owner, curr_time, checks) ==
    LET m    == or_insert(st.stake, owner)
        diff == u64_sub(m[owner].staked_start_at, curr_time, checks)
    IN  [panic |-> diff.panic, stake |-> m, val |-> u64_div(diff.val, 1000)]

\* State::get_time: whole seconds from the record's start to curr_time.
get_time(st, owner, curr_time, checks) ==
    LET m    == or_insert(st.stake, owner)
        diff == u64_sub(curr_time, m[owner].staked_start_at, checks)
    IN  [panic |-> diff.panic, stake |-> m, val |-> u64_div(diff.val, 1000)]

\* get_reward on the pool total instead of the owner's own amount.
get_reward_on_total(st, owner, time, checks) ==
    LET m    == or_insert(st.stake, owner)
        prod == u64_mul(st.total_staked, time, checks)
    IN  [panic |-> prod.panic, stake |-> m,
         val |-> u64_div(prod.val, SECOND_PER_YEAR)]

\* State::get_reward: owner_state.amount * time / SECOND_PER_YEAR.
get_reward(st, owner, time, checks) ==
    LET m    == or_insert(st.stake, owner)
        prod == u64_mul(m[owner].amount, time, checks)
    IN  [panic |-> prod.panic, stake |-> m,
         val |-> u64_div(prod.val, SECOND_PER_YEAR)]

\* calculate_reward: get_time at the slot time, then get_reward.
calculate_reward(st, ctx, owner, checks) ==
    LET t == get_time(st, owner, ctx.slot_time, checks)
        r == get_reward([st EXCEPT !.stake = t.stake], owner, t.val, checks)
    IN  [panic |-> t.panic \/ r.panic, stake |-> r.stake, val |-> r.val]

(***************************************************************************)
(* Cis2Client.  The token contract is outside the contract: the answer it  *)
(* makes to a call is an input, drawn when the call is made.  `host` is    *)
(* the host with that answer pending.  Every client function returns its   *)
(* error ("None" when it succeeded), its value, and the call it made.      *)
(***************************************************************************)
\* Cis2Client::invoke_contract_read_only, on the host's answer.
invoke_contract_read_only(host) ==
    CASE host.kind = "CallError"   -> [err |-> "InvokeContractError", val |-> <<>>]
      [] host.kind = "NoReturn"    -> [err |-> "InvokeContractError", val |-> <<>>]
      [] host.kind = "Undecodable" -> [err |-> "ParseResult", val |-> <<>>]
      [] host.kind = "Value"       -> [err |-> "None", val |-> host.val]

\* is_operator_of that takes an empty answer list as true.
is_operator_of_empty_as_true(host, owner, current_contract_address, token_contract_address) ==
    LET call == [entrypoint |-> "operatorOf",
                 contract   |-> token_contract_address,
                 params     |-> [owner |-> owner,
                                 address |-> ContractAddr(current_contract_address)],
                 answer     |-> host]
        parsed_res == invoke_contract_read_only(host)
    IN  IF parsed_res.err # "None"
        THEN [err |-> parsed_res.err, val |-> FALSE, call |-> call]
        ELSE IF parsed_res.val = <<>>
        THEN [err |-> "None", val |-> TRUE, call |-> call]
        ELSE [err |-> "None", val |-> Head(parsed_res.val), call |-> call]

\* Cis2Client::is_operator_of
is_operator_of(host, owner, current_contract_address, token_contract_address) ==
    LET call == [entrypoint |-> "operatorOf",
                 contract   |-> token_contract_address,
                 params     |-> [owner |-> owner,
                                 address |-> ContractAddr(current_contract_address)],
                 answer     |-> host]
        parsed_res == invoke_contract_read_only(host)
    IN  IF parsed_res.err # "None"
        THEN [err |-> parsed_res.err, val |-> FALSE, call |-> call]
        ELSE IF parsed_res.val = <<>>
        THEN [err |-> "InvokeContractError", val |-> FALSE, call |-> call]
        ELSE [err |-> "None", val |-> Head(parsed_res.val), call |-> call]

\* Cis2Client::has_balance
has_balance(host, token_contract_address, amount, owner) ==
    LET call == [entrypoint |-> "balanceOf",
                 contract   |-> token_contract_address,
                 params     |-> [address |-> owner],
                 answer     |-> host]
        parsed_res == invoke_contract_read_only(host)
    IN  IF parsed_res.err # "None"
        THEN [err |-> parsed_res.err, val |-> FALSE, call |-> call]
        ELSE IF parsed_res.val = <<>>
        THEN [err |-> "InvokeContractError", val |-> FALSE, call |-> call]
        ELSE [err |-> "None", val |-> NatLeq(amount, Head(parsed_res.val)),
              call |-> call]

\* transfer that names the staking contract itself as the source.
transfer_from_self(host, token_contract_address, amount, from, to) ==
    LET call == [entrypoint |-> "transfer",
                 contract   |-> token_contract_address,
                 params     |-> [amount |-> amount, from |-> ContractAddr(SelfAddress),
                                 to |-> to],
                 answer     |-> host]
        res == invoke_contract_read_only(host)
    IN  [err |-> res.err, val |-> res.err = "None", call |-> call]

\* Cis2Client::transfer
transfer(host, token_contract_address, amount, from, to) ==
    LET call == [entrypoint |-> "transfer",
                 contract   |-> token_contract_address,
                 params     |-> [amount |-> amount, from |-> AccountAddr(from),
                                 to |-> to],
                 answer     |-> host]
        res == invoke_contract_read_only(host)
    IN  [err |-> res.err, val |-> res.err = "None", call |-> call]

\* CustomContractError::Cis2ClientError(e)
Cis2ClientError(e) ==
    CASE e = "InvokeContractError" -> "Cis2ClientError(InvokeContractError)"
      [] e = "ParseResult"         -> "Cis2ClientError(ParseResult)"
      [] e = "ParseParams"         -> "Cis2ClientError(ParseParams)"

\* ensure_is_operator without its ensure!(is_operator, ...).
ensure_is_operator_unchecked(host, ctx, token_contract_address) ==
    LET is_operator ==
            is_operator_of(host, ctx.sender, SelfAddress, token_contract_address)
    IN  [err  |-> IF is_operator.err # "None" THEN Cis2ClientError(is_operator.err)
                  ELSE "None",
         call |-> is_operator.call]

\* ensure_is_operator
ensure_is_operator(host, ctx, token_contract_address) ==
    LET is_operator ==
            is_operator_of(host, ctx.sender, SelfAddress, token_contract_address)
    IN  [err  |-> IF is_operator.err # "None" THEN Cis2ClientError(is_operator.err)
                  ELSE IF ~is_operator.val THEN "NotOperator"
                  ELSE "None",
         call |-> is_operator.call]

\* ensure_balance without its ensure!(has_balance, ...).
ensure_balance_unchecked(host, token_contract_address, amount, ctx) ==
    LET has == has_balance(host, token_contract_address, amount, ctx.sender)
    IN  [err  |-> IF has.err # "None" THEN Cis2ClientError(has.err) ELSE "None",
         call |-> has.call]

\* ensure_balance
ensure_balance(host, token_contract_address, amount, ctx) ==
    LET has == has_balance(host, token_contract_address, amount, ctx.sender)
    IN  [err  |-> IF has.err # "None" THEN Cis2ClientError(has.err)
                  ELSE IF ~has.val THEN "NoBalance"
                  ELSE "None",
         call |-> has.call]

(***************************************************************************)
(* The receive functions.  Each gives the set of its possible outcomes,    *)
(* one per combination of answers to the calls it makes.  An outcome is    *)
(* the result ("Ok", an error, or "Panic" when the code aborts), the       *)
(* contract state left in memory, and the calls made, in order.            *)
(***************************************************************************)
\* matches_account that accepts every account as the owner.
matches_any_account(sender, owner) == sender.kind = "account"

\* sender.matches_account(&params.owner)
matches_account(sender, owner) == sender.kind = "account" /\ sender.addr = owner

Return(result, st, ext) ==
    [result |-> result, stake |-> st.stake, total_staked |-> st.total_staked,
     ext |-> ext]

\* stake_token with the balance check placed before the caller-is-owner check.
stake_token_balance_first(st, ctx, params, checks) ==
    IF params = Malformed THEN {Return("ParseParams", st, <<>>)}
    ELSE UNION {
        LET bal == ensure_balance(balance_host, params.token_contract_address,
                                  params.amount, ctx)
        IN  IF bal.err # "None" THEN {Return(bal.err, st, <<bal.call>>)}
            ELSE IF ~matches_account(ctx.sender, params.owner)
            THEN {Return("Unauthorized", st, <<bal.call>>)}
            ELSE UNION {
                LET op == ensure_is_operator(operator_host, ctx,
                                             params.token_contract_address)
                IN  IF op.err # "None"
                    THEN {Return(op.err, st, <<bal.call, op.call>>)}
                    ELSE LET ins == insert_token(st, params.owner, params.amount,
                                                 ctx.slot_time, checks)
                         IN  {Return(IF ins.panic THEN "Panic" ELSE "Ok", ins,
                                     <<bal.call, op.call>>)}
                : operator_host \in OperatorOfAnswers}
        : balance_host \in BalanceOfAnswers}

\* stake_token with the operator check placed before the balance check.
stake_token_operator_first(st, ctx, params, checks) ==
    IF params = Malformed THEN {Return("ParseParams", st, <<>>)}
    ELSE IF ~matches_account(ctx.sender, params.owner)
    THEN {Return("Unauthorized", st, <<>>)}
    ELSE UNION {
        LET op == ensure_is_operator(operator_host, ctx,
                                     params.token_contract_address)
        IN  IF op.err # "None" THEN {Return(op.err, st, <<op.call>>)}
            ELSE UNION {
                LET bal == ensure_balance(balance_host,
                                          params.token_contract_address,
                                          params.amount, ctx)
                IN  IF bal.err # "None"
                    THEN {Return(bal.err, st, <<op.call, bal.call>>)}
                    ELSE LET ins == insert_token(st, params.owner, params.amount,
                                                 ctx.slot_time, checks)
                         IN  {Return(IF ins.panic THEN "Panic" ELSE "Ok", ins,
                                     <<op.call, bal.call>>)}
                : balance_host \in BalanceOfAnswers}
        : operator_host \in OperatorOfAnswers}

\* stake_token
stake_token(st, ctx, params, checks) ==
    IF params = Malformed THEN {Return("ParseParams", st, <<>>)}
    ELSE IF ~matches_account(ctx.sender, params.owner)
    THEN {Return("Unauthorized", st, <<>>)}
    ELSE UNION {
        LET bal == ensure_balance(balance_host, params.token_contract_address,
                                  params.amount, ctx)
        IN  IF bal.err # "None" THEN {Return(bal.err, st, <<bal.call>>)}
            ELSE UNION {
                LET op == ensure_is_operator(operator_host, ctx,
                                             params.token_contract_address)
                IN  IF op.err # "None"
                    THEN {Return(op.err, st, <<bal.call, op.call>>)}
                    ELSE LET ins == insert_token(st, params.owner, params.amount,
                                                 ctx.slot_time, checks)
                         IN  {Return(IF ins.panic THEN "Panic" ELSE "Ok", ins,
                                     <<bal.call, op.call>>)}
                : operator_host \in OperatorOfAnswers}
        : balance_host \in BalanceOfAnswers}

\* unstake_token
unstake_token(st, ctx, params, checks) ==
    IF params = Malformed THEN {Return("ParseParams", st, <<>>)}
    ELSE IF ~matches_account(ctx.sender, params.owner)
    THEN {Return("Unauthorized", st, <<>>)}
    ELSE
    LET rem == remove_token(st, params.owner, checks)
    IN  IF rem.panic THEN {Return("Panic", rem, <<>>)}
        ELSE
        LET reward == calculate_reward(rem, ctx, params.owner, checks)
            after  == [rem EXCEPT !.stake = reward.stake]
        IN  IF reward.panic THEN {Return("Panic", after, <<>>)}
            ELSE {
                LET paid == transfer(transfer_host, params.token_contract_address,
                                     reward.val, ContractOwner,
                                     AccountAddr(ctx.invoker))
                IN  Return("Ok", after, <<paid.call>>)
                : transfer_host \in TransferAnswers}

\* claim_reward that pays the reward of the record and leaves the stake in place.
claim_reward_keeping_stake(st, ctx, params, checks) ==
    IF params = Malformed THEN {Return("ParseParams", st, <<>>)}
    ELSE IF ~matches_account(ctx.sender, params.owner)
    THEN {Return("Unauthorized", st, <<>>)}
    ELSE
    LET reward == calculate_reward(st, ctx, params.owner, checks)
        after  == [st EXCEPT !.stake = reward.stake]
    IN  IF reward.panic THEN {Return("Panic", after, <<>>)}
        ELSE {
            LET paid == transfer(transfer_host, params.token_contract_address,
                                 reward.val, ContractOwner,
                                 AccountAddr(ctx.invoker))
            IN  Return("Ok", after, <<paid.call>>)
            : transfer_host \in TransferAnswers}

\* claim_reward
claim_reward(st, ctx, params, checks) ==
    IF params = Malformed THEN {Return("ParseParams", st, <<>>)}
    ELSE IF ~matches_account(ctx.sender, params.owner)
    THEN {Return("Unauthorized", st, <<>>)}
    ELSE
    LET rem == remove_token(st, params.owner, checks)
    IN  IF rem.panic THEN {Return("Panic", rem, <<>>)}
        ELSE
        LET reward == calculate_reward(rem, ctx, params.owner, checks)
            after  == [rem EXCEPT !.stake = reward.stake]
        IN  IF reward.panic THEN {Return("Panic", after, <<>>)}
            ELSE {
                LET paid == transfer(transfer_host, params.token_contract_address,
                                     reward.val, ContractOwner,
                                     AccountAddr(ctx.invoker))
                IN  Return("Ok", after, <<paid.call>>)
                : transfer_host \in TransferAnswers}

(***************************************************************************)
(* The state machine.  The host runs one transaction at a time: it calls   *)
(* a receive function (Stake, Unstake, Claim), which runs to completion,   *)
(* and reports the outcome (Finish) before it takes the next one.          *)
(***************************************************************************)
\* Successful stakes per behaviour.
MaxStakes == 2

\* Advances of the host's slot time per behaviour.
MaxTicks == 1

\* One year in milliseconds.
YearMillis == NatMul(NatOf(SECOND_PER_YEAR), NatOf(1000))

\* The amounts by which the slot time advances between transactions.
TimeSteps == {NatOf(1500), YearMillis}

VARIABLES
    stake,            \* State.stake: owner -> StakeState, for the owners with an entry
    total_staked,     \* State.total_staked
    slot_time,        \* the host's slot time, in milliseconds
    overflow_checks,  \* whether the build panics on integer overflow (else it wraps)
    last,             \* the transaction just run: request, result, calls, state before
    open,             \* per account: its last successful stake, until its next request
    nstakes,          \* successful stakes so far
    nticks,           \* slot time advances so far
    rw                \* the reward function applied on its own: inputs and results

vars ==
    <<stake, total_staked, slot_time, overflow_checks, last, open, nstakes, nticks, rw>>

\* The contract state as the receive functions see it.
Ledger == [stake |-> stake, total_staked |-> total_staked]

NoCall == [op |-> "none"]

NotOpen == [open |-> FALSE, amount |-> <<>>, at |-> <<>>]

NoReward == [times |-> <<>>, rewards |-> <<>>]

\* contract_init, deployed at slot time 0 by a build with or without overflow checks.
Init ==
    /\ stake = State_empty.stake
    /\ total_staked = State_empty.total_staked
    /\ slot_time = <<>>
    /\ overflow_checks \in BOOLEAN
    /\ last = NoCall
    /\ open = [a \in Accounts |-> NotOpen]
    /\ nstakes = 0
    /\ nticks = 0
    /\ rw = NoReward

\* The host ends the transaction: the state a receive function leaves is kept
\* when it returned Ok and dropped when it returned an error or panicked.
Commit(op, ctx, params, out) ==
    /\ stake' = IF out.result = "Ok" THEN out.stake ELSE stake
    /\ total_staked' = IF out.result = "Ok" THEN out.total_staked ELSE total_staked
    /\ last' = [op     |-> op,
                ctx    |-> ctx,
                params |-> params,
                result |-> out.result,
                ext    |-> out.ext,
                pre    |-> Ledger,
                opened |-> IF ctx.sender.kind = "account"
                           THEN open[ctx.sender.addr] ELSE NotOpen]
    /\ open' = IF ctx.sender.kind # "account" THEN open
               ELSE [open EXCEPT ![ctx.sender.addr] =
                        IF op = "stake" /\ out.result = "Ok"
                        THEN [open |-> TRUE, amount |-> params.amount,
                              at |-> ctx.slot_time]
                        ELSE NotOpen]
    /\ nstakes' = IF op = "stake" /\ out.result = "Ok" THEN nstakes + 1 ELSE nstakes
    /\ UNCHANGED <<slot_time, overflow_checks, nticks, rw>>

\* A transaction calling the stake entrypoint.  (The source registers it under
\* contract = "token", line 152; it is taken as an entrypoint of the staking
\* contract, on whose State it is written to act.)
Stake ==
    /\ last = NoCall
    /\ nstakes < MaxStakes
    /\ \E ctx \in Contexts(slot_time), params \in StakeParams \cup {Malformed} :
          \E out \in stake_token(Ledger, ctx, params, overflow_checks) :
              Commit("stake", ctx, params, out)

\* A transaction calling the unstake entrypoint.
Unstake ==
    /\ last = NoCall
    /\ \E ctx \in Contexts(slot_time), params \in UnStakeParams \cup {Malformed} :
          \E out \in unstake_token(Ledger, ctx, params, overflow_checks) :
              Commit("unstake", ctx, params, out)

\* A transaction calling the claim entrypoint.
Claim ==
    /\ last = NoCall
    /\ \E ctx \in Contexts(slot_time), params \in ClaimParams \cup {Malformed} :
          \E out \in claim_reward(Ledger, ctx, params, overflow_checks) :
              Commit("claim", ctx, params, out)

\* The host reports the outcome and is ready for the next transaction.
Finish ==
    /\ last # NoCall
    /\ last' = NoCall
    /\ UNCHANGED <<stake, total_staked, slot_time, overflow_checks, open,
                   nstakes, nticks, rw>>

\* The host's slot time advances between transactions; it never decreases.
Tick ==
    /\ last = NoCall
    /\ nticks < MaxTicks
    /\ \E d \in TimeSteps : slot_time' = NatAdd(slot_time, d)
    /\ nticks' = nticks + 1
    /\ UNCHANGED <<stake, total_staked, overflow_checks, last, open, nstakes, rw>>

Next == Stake \/ Unstake \/ Claim \/ Finish \/ Tick

Spec == Init /\ [][Next]_vars

(***************************************************************************)
(* The reward function on its own: State::get_reward applied to a record   *)
(* holding principal p, at two elapsed times t1 <= t2 in turn.             *)
(***************************************************************************)
\* Principals and elapsed times (seconds) across the u64 range.
Principals ==
    {<<>>, NatOf(1), NatOf(1000), NatOf(SECOND_PER_YEAR), Zeros(8) \o <<1>>,
     TwoTo63, U64Max}

ElapsedTimes ==
    {<<>>, NatOf(1), NatOf(2), NatOf(SECOND_PER_YEAR), Zeros(8) \o <<1>>, U64Max}

\* The ledger after alice staked p at slot time 0; two elapsed times to try.
InitReward ==
    /\ \E p \in Principals :
          /\ stake = ("alice" :> [amount |-> p, staked_start_at |-> <<>>])
          /\ total_staked = p
          /\ open = [a \in Accounts |->
                        IF a = "alice"
                        THEN [open |-> TRUE, amount |-> p, at |-> <<>>]
                        ELSE NotOpen]
    /\ slot_time = <<>>
    /\ overflow_checks \in BOOLEAN
    /\ last = NoCall
    /\ nstakes = 1
    /\ nticks = 0
    /\ \E t1 \in ElapsedTimes, t2 \in ElapsedTimes :
          /\ NatLeq(t1, t2)
          /\ rw = [times |-> <<t1, t2>>, rewards |-> <<>>]

\* get_reward is applied at the next elapsed time.
RewardStep ==
    /\ Len(rw.rewards) < Len(rw.times)
    /\ LET r == get_reward(Ledger, "alice", rw.times[Len(rw.rewards) + 1],
                           overflow_checks)
       IN  rw' = [rw EXCEPT !.rewards = Append(@, [panic |-> r.panic, val |-> r.val])]
    /\ UNCHANGED <<stake, total_staked, slot_time, overflow_checks, last, open,
                   nstakes, nticks>>

NextReward == RewardStep

SpecReward == InitReward /\ [][NextReward]_vars

(***************************************************************************)
(* The claims.  `last` is the transaction just run, `last.pre` the ledger  *)
(* before it, `Ledger` the ledger after it.                                *)
(***************************************************************************)
\* The record the map holds for owner o; an owner without an entry has no stake.
RecordOf(m, o) == IF o \in DOMAIN m THEN m[o] ELSE StakeState_empty

RECURSIVE SumOfAmounts(_, _)
\* The exact sum of the amounts of the records of the owners in S.
SumOfAmounts(m, S) ==
    IF S = {} THEN <<>>
    ELSE LET o == CHOOSE o \in S : TRUE
         IN  NatAdd(m[o].amount, SumOfAmounts(m, S \ {o}))

\* A transaction has just run, with a request that decoded.
Called(ops) == last.op \in ops /\ last.params # Malformed

\* The caller of the last transaction is the account its request names as owner.
CallerIsOwner == last.ctx.sender = AccountAddr(last.params.owner)

\* The transfer calls the last transaction made.
TransfersMade == SelectSeq(last.ext, LAMBDA c : c.entrypoint = "transfer")

\* C1: in every reachable state total_staked is the sum of the amounts of all
\* per-owner stake records.
C1_TotalIsSumOfStakes == total_staked = SumOfAmounts(stake, DOMAIN stake)

\* C2: a stake, unstake or claim whose caller is not the owner named in the
\* request fails with Unauthorized and leaves the ledger as it was.
C2_UnauthorizedRejected ==
    (Called({"stake", "unstake", "claim"}) /\ ~CallerIsOwner)
        => (last.result = "Unauthorized" /\ Ledger = last.pre)

\* C2 happens: another account's unstake or claim, naming an owner who has a
\* stake, was rejected.
C2_Witness ==
    /\ Called({"unstake", "claim"})
    /\ last.ctx.sender.kind = "account"
    /\ ~CallerIsOwner
    /\ RecordOf(stake, last.params.owner).amount # <<>>
    /\ last.result = "Unauthorized"

\* C3: an unstake by an owner whose last request was a successful stake of a
\* at t0 issues a transfer of floor(a * floor((t1 - t0) / 1000) / 31_536_000),
\* t1 being the slot time of the unstake.
C3_UnstakePaysAccruedReward ==
    (Called({"unstake"}) /\ last.result = "Ok" /\ last.opened.open)
        => /\ Len(TransfersMade) = 1
           /\ TransfersMade[1].params.amount =
                  NatDiv(NatMul(last.opened.amount,
                                NatDiv(NatSub(last.ctx.slot_time, last.opened.at),
                                       1000)),
                         SECOND_PER_YEAR)

\* C4: when the transfer made by unstake or claim fails, the handler returns an
\* error and the ledger is as before the call.
C4_TransferFailureAborts ==
    (/\ Called({"unstake", "claim"})
     /\ Len(TransfersMade) > 0
     /\ TransfersMade[1].answer \in Failures)
        => (last.result # "Ok" /\ Ledger = last.pre)

\* C5: a stake by the owner for which balanceOf reports less than the requested
\* amount fails with NoBalance and leaves the ledger as it was.
C5_NoBalanceRejected ==
    (/\ Called({"stake"})
     /\ CallerIsOwner
     /\ Len(last.ext) >= 1
     /\ last.ext[1].entrypoint = "balanceOf"
     /\ last.ext[1].answer.kind = "Value"
     /\ last.ext[1].answer.val # <<>>
     /\ NatLess(last.ext[1].answer.val[1], last.params.amount))
        => (last.result = "NoBalance" /\ Ledger = last.pre)

\* C5 happens: the owner, who has a stake already, asked to stake more than the
\* reported balance.
C5_Witness ==
    /\ Called({"stake"})
    /\ CallerIsOwner
    /\ last.ext # <<>>
    /\ last.ext[1].answer = Value(<<NatOf(999)>>)
    /\ last.params.amount = TwoTo63
    /\ RecordOf(stake, last.params.owner).amount # <<>>
    /\ last.result = "NoBalance"

\* C6: a stake by the owner whose balance check passes and for which operatorOf
\* reports false fails with NotOperator and leaves the ledger as it was.
C6_NotOperatorRejected ==
    (/\ Called({"stake"})
     /\ CallerIsOwner
     /\ Len(last.ext) >= 2
     /\ last.ext[1].entrypoint = "balanceOf"
     /\ last.ext[1].answer.kind = "Value"
     /\ last.ext[1].answer.val # <<>>
     /\ NatLeq(last.params.amount, last.ext[1].answer.val[1])
     /\ last.ext[2].entrypoint = "operatorOf"
     /\ last.ext[2].answer = Value(<<FALSE>>))
        => (last.result = "NotOperator" /\ Ledger = last.pre)

\* C6 happens: the balance sufficed, the contract was not an operator, and the
\* owner had a stake already.
C6_Witness ==
    /\ Called({"stake"})
    /\ CallerIsOwner
    /\ Len(last.ext) = 2
    /\ last.ext[1].answer = Value(<<TwoTo63>>)
    /\ last.ext[2].answer = Value(<<FALSE>>)
    /\ RecordOf(stake, last.params.owner).amount # <<>>
    /\ last.result = "NotOperator"

\* C7: after a successful stake of a at slot time t the owner's record is
\* exactly {amount = a, staked_start_at = t}, whatever it held before.
C7_StakeOverwrites ==
    (Called({"stake"}) /\ last.result = "Ok")
        => /\ last.params.owner \in DOMAIN stake
           /\ stake[last.params.owner] =
                  [amount |-> last.params.amount,
                   staked_start_at |-> last.ctx.slot_time]

\* C7 happens: the owner staked again, later, another amount than the record held.
C7_Witness ==
    /\ Called({"stake"})
    /\ last.result = "Ok"
    /\ RecordOf(last.pre.stake, last.params.owner).amount
           \notin {<<>>, last.params.amount}
    /\ RecordOf(last.pre.stake, last.params.owner).staked_start_at
           # last.ctx.slot_time

\* C8: after a successful unstake or claim by an owner whose record held a, the
\* record is {amount = 0, staked_start_at = 0} and total_staked is lower than
\* before by exactly a.
C8_WithdrawZeroesAndDecrements ==
    (Called({"unstake", "claim"}) /\ last.result = "Ok")
        => /\ RecordOf(stake, last.params.owner) = StakeState_empty
           /\ NatAdd(total_staked,
                     RecordOf(last.pre.stake, last.params.owner).amount)
                  = last.pre.total_staked

\* C9: an unstake by an owner whose last request was a successful stake at the
\* same slot time issues a transfer of amount 0, for every staked amount.
C9_ImmediateUnstakePaysZero ==
    (/\ Called({"unstake"})
     /\ last.result = "Ok"
     /\ last.opened.open
     /\ last.opened.at = last.ctx.slot_time)
        => /\ Len(TransfersMade) = 1
           /\ TransfersMade[1].params.amount = <<>>

\* C9 happens: a non-zero stake made after time had passed was unstaked at once.
C9_Witness ==
    /\ Called({"unstake"})
    /\ last.result = "Ok"
    /\ last.opened.open
    /\ last.opened.amount # <<>>
    /\ last.opened.at = last.ctx.slot_time
    /\ last.ctx.slot_time # <<>>

\* C10: get_reward returns floor(p * t / 31_536_000) for every principal p and
\* elapsed time t of the u64 range, without aborting, and for a fixed principal
\* the reward does not decrease when t grows.
C10_RewardExactAndMonotone ==
    /\ \A i \in 1..Len(rw.rewards) :
          /\ ~rw.rewards[i].panic
          /\ rw.rewards[i].val =
                 NatDiv(NatMul(stake["alice"].amount, rw.times[i]), SECOND_PER_YEAR)
    /\ Len(rw.rewards) = 2 => NatLeq(rw.rewards[1].val, rw.rewards[2].val)

\* What the transaction just run would have been, had the host run the outcome
\* out on the ledger before it: its result, its calls with their answers, and
\* the ledger the host keeps.
SameAsLast(out) ==
    /\ out.result = last.result
    /\ out.ext = last.ext
    /\ Ledger = IF out.result = "Ok"
                THEN [stake |-> out.stake, total_staked |-> out.total_staked]
                ELSE last.pre

\* C11: claim and unstake are behaviourally identical: from the same ledger, with
\* the same caller, owner, token contract, slot time and token-contract answers,
\* each returns the result, leaves the ledger and issues the transfer that the
\* other does.
C11_ClaimEqualsUnstake ==
    /\ last.op = "unstake" =>
           \E out \in claim_reward(last.pre, last.ctx, last.params, overflow_checks) :
               SameAsLast(out)
    /\ last.op = "claim" =>
           \E out \in unstake_token(last.pre, last.ctx, last.params, overflow_checks) :
               SameAsLast(out)

\* C11 happens: a claim by the owner of a non-zero stake, a year after the stake,
\* went through.
C11_Witness ==
    /\ Called({"claim"})
    /\ last.result = "Ok"
    /\ RecordOf(last.pre.stake, last.params.owner).amount # <<>>
    /\ RecordOf(last.pre.stake, last.params.owner).staked_start_at # last.ctx.slot_time
    /\ Len(TransfersMade) = 1

\* The records of the owners other than o are the same in maps m1 and m2.
OthersUnchanged(m1, m2, o) ==
    \A b \in Accounts \ {o} : RecordOf(m1, b) = RecordOf(m2, b)

\* C12: an unstake or claim by an owner who holds no stake (it was withdrawn, or
\* never made) succeeds with a transfer of amount 0 and leaves total_staked and
\* the records of all other owners unchanged, whatever the slot time.
C12_NoStakePaysZero ==
    (/\ Called({"unstake", "claim"})
     /\ CallerIsOwner
     /\ RecordOf(last.pre.stake, last.params.owner) = StakeState_empty)
        => /\ last.result = "Ok"
           /\ Len(TransfersMade) = 1
           /\ TransfersMade[1].params.amount = <<>>
           /\ total_staked = last.pre.total_staked
           /\ OthersUnchanged(last.pre.stake, stake, last.params.owner)

\* C12 happens: time has passed, the owner's record is there and empty, another
\* owner holds a stake, and the owner unstaked or claimed.
C12_Witness ==
    /\ Called({"unstake", "claim"})
    /\ CallerIsOwner
    /\ last.params.owner \in DOMAIN last.pre.stake
    /\ last.pre.stake[last.params.owner] = StakeState_empty
    /\ \E b \in Accounts \ {last.params.owner} :
           RecordOf(last.pre.stake, b).amount # <<>>
    /\ last.ctx.slot_time # <<>>
    /\ last.result = "Ok"

\* C13: a successful unstake or claim makes exactly one transfer call, to the
\* token contract the request names, from the account that owns the staking
\* contract (not the staking contract's own address) to the calling account; a
\* successful stake makes no transfer call.
C13_OneTransferFromOwner ==
    /\ (Called({"unstake", "claim"}) /\ last.result = "Ok")
           => /\ Len(TransfersMade) = 1
              /\ TransfersMade[1].contract = last.params.token_contract_address
              /\ TransfersMade[1].params.from = AccountAddr(ContractOwner)
              /\ TransfersMade[1].params.from # ContractAddr(SelfAddress)
              /\ TransfersMade[1].params.to = last.ctx.sender
    /\ (Called({"stake"}) /\ last.result = "Ok") => TransfersMade = <<>>

\* C13 happens: the owner of a stake unstaked or claimed it, naming tokenB.
C13_Witness ==
    /\ Called({"unstake", "claim"})
    /\ last.result = "Ok"
    /\ RecordOf(last.pre.stake, last.params.owner).amount # <<>>
    /\ last.params.token_contract_address = "tokenB"
    /\ Len(TransfersMade) = 1

\* C14: a stake, unstake or claim whose caller is not the owner named in the
\* request makes no balanceOf, operatorOf or transfer call: the caller-is-owner
\* check comes before every external call.
C14_NoCallBeforeAuthorization ==
    (Called({"stake", "unstake", "claim"}) /\ ~CallerIsOwner) => last.ext = <<>>

\* C14 happens: an account asked to stake in the name of another account.
C14_Witness ==
    /\ Called({"stake"})
    /\ last.ctx.sender.kind = "account"
    /\ ~CallerIsOwner
    /\ last.result = "Unauthorized"
    /\ last.ext = <<>>

\* The answer a is a balance below the amount amt.
BalanceBelow(a, amt) ==
    a.kind = "Value" /\ a.val # <<>> /\ NatLess(a.val[1], amt)

\* The answer a is a balance that covers the amount amt.
BalanceCovers(a, amt) ==
    a.kind = "Value" /\ a.val # <<>> /\ NatLeq(amt, a.val[1])

\* C15: stake runs authorize, balance check, operator check, ledger insert in
\* that order: the first call of an authorized stake is balanceOf; when the
\* balance is insufficient no operatorOf call is made and the error is
\* NoBalance, whatever operatorOf would have answered; and the insert runs only
\* after balanceOf reported enough and operatorOf reported true.
C15_StakeStepOrder ==
    (Called({"stake"}) /\ CallerIsOwner)
        => /\ Len(last.ext) >= 1
           /\ last.ext[1].entrypoint = "balanceOf"
           /\ BalanceBelow(last.ext[1].answer, last.params.amount)
                  => /\ Len(last.ext) = 1
                     /\ last.result = "NoBalance"
                     /\ \A out \in stake_token(last.pre, last.ctx, last.params,
                                               overflow_checks) :
                            out.ext[1].answer = last.ext[1].answer
                                => (out.result = "NoBalance" /\ Len(out.ext) = 1)
           /\ (last.result \in {"Ok", "Panic"} \/ Ledger # last.pre)
                  => /\ Len(last.ext) = 2
                     /\ BalanceCovers(last.ext[1].answer, last.params.amount)
                     /\ last.ext[2].entrypoint = "operatorOf"
                     /\ last.ext[2].answer = Value(<<TRUE>>)

\* C15 happens: the owner asked to stake 1000 with a reported balance of 999 and
\* was turned away after the balanceOf call alone.
C15_Witness ==
    /\ Called({"stake"})
    /\ CallerIsOwner
    /\ Len(last.ext) = 1
    /\ last.ext[1].answer = Value(<<NatOf(999)>>)
    /\ last.params.amount = NatOf(1000)
    /\ last.result = "NoBalance"

\* The client error the code is to give for an answer that carries no value.
ClientErrorFor(a) ==
    IF a = Undecodable THEN "Cis2ClientError(ParseResult)"
    ELSE "Cis2ClientError(InvokeContractError)"

\* C16: when the balanceOf or operatorOf call of a stake cannot be dispatched,
\* returns nothing, returns an empty list or returns bytes that do not decode,
\* the stake fails with the client error for it (InvokeContractError, or
\* ParseResult for the undecodable response) and the ledger is as before.
C16_ClientErrorsAbortStake ==
    (Called({"stake"}) /\ CallerIsOwner)
        => \A i \in 1..Len(last.ext) :
               (/\ last.ext[i].entrypoint \in {"balanceOf", "operatorOf"}
                /\ last.ext[i].answer \in Failures \cup {Value(<<>>)})
                   => /\ last.result = ClientErrorFor(last.ext[i].answer)
                      /\ Ledger = last.pre
                      /\ i = Len(last.ext)

\* C16 happens: the balance check passed and the operatorOf call of a stake came
\* back with an empty list.
C16_Witness ==
    /\ Called({"stake"})
    /\ CallerIsOwner
    /\ Len(last.ext) = 2
    /\ last.ext[2].entrypoint = "operatorOf"
    /\ last.ext[2].answer = Value(<<>>)
    /\ last.result = "Cis2ClientError(InvokeContractError)"

\* C17: in every reachable state total_staked is at least the amount of each
\* owner's record, so total_staked - amount in remove_token does not underflow.
C17_TotalCoversEveryRecord ==
    \A o \in DOMAIN stake : NatLeq(stake[o].amount, total_staked)

\* C18: whenever a stake reaches insert_token (the caller is the owner, the
\* balance covers the request, the contract is an operator), total_staked +
\* amount is within the u64 range.
C18_StakeAdditionInRange ==
    (Called({"stake"}) /\ last.result \in {"Ok", "Panic"})
        => IsU64(NatAdd(last.pre.total_staked, last.params.amount))

\* The ledger on which unstake and claim evaluate the elapsed time: the one
\* remove_token leaves.
LedgerAtGetTime ==
    remove_token(last.pre, last.params.owner, overflow_checks)

\* C19: in every reachable state no record starts after the host's slot time,
\* and the staked_start_at that unstake or claim reads in get_time is not
\* greater than the slot time of the call: curr_time - staked_start_at does not
\* underflow.
C19_ElapsedTimeNeverUnderflows ==
    /\ \A o \in DOMAIN stake : NatLeq(stake[o].staked_start_at, slot_time)
    /\ (/\ Called({"unstake", "claim"})
        /\ CallerIsOwner
        /\ ~LedgerAtGetTime.panic)
           => /\ NatLeq(RecordOf(LedgerAtGetTime.stake,
                                 last.params.owner).staked_start_at,
                        last.ctx.slot_time)
              /\ ~get_time(LedgerAtGetTime, last.params.owner,
                           last.ctx.slot_time, TRUE).panic
              /\ last.result # "Panic"

\* C19 happens: a stake made after the slot time had advanced was unstaked or
\* claimed.
C19_Witness ==
    /\ Called({"unstake", "claim"})
    /\ CallerIsOwner
    /\ RecordOf(last.pre.stake, last.params.owner).amount # <<>>
    /\ RecordOf(last.pre.stake, last.params.owner).staked_start_at # <<>>
    /\ last.result = "Ok"

\* C20: a stake, unstake or claim for owner A leaves every other owner's record
\* (amount and staked_start_at, and whether there is one) as it was, whether
\* the call succeeds or fails.
C20_OtherRecordsUntouched ==
    Called({"stake", "unstake", "claim"})
        => \A b \in Accounts \ {last.params.owner} :
               /\ (b \in DOMAIN stake) = (b \in DOMAIN last.pre.stake)
               /\ RecordOf(stake, b) = RecordOf(last.pre.stake, b)

\* C20 happens: an owner withdrew a stake while another owner held one.
C20_Witness ==
    /\ Called({"unstake", "claim"})
    /\ last.result = "Ok"
    /\ RecordOf(last.pre.stake, last.params.owner).amount # <<>>
    /\ RecordOf(stake, last.params.owner).amount = <<>>
    /\ \E b \in Accounts \ {last.params.owner} :
           /\ RecordOf(last.pre.stake, b).amount # <<>>
           /\ RecordOf(stake, b) = RecordOf(last.pre.stake, b)

=============================================================================
